---- MODULE Spec2Model ----
(***************************************************************************)
(* Cafe reservation server (src/app.py, src/models.py).                    *)
(*                                                                         *)
(* Two tables, customers and reservations, behind Flask-RESTX handlers.    *)
(* Every handler that addresses a record is one action; the two list       *)
(* handlers (CustomerList.get, ReservationList.get) only read and are left *)
(* out.  Python values are encoded as strings: None is "None", the         *)
(* booleans are "True" and "False", a key missing from the JSON body is    *)
(* Absent.  A datetime is a natural number.                                *)
(***************************************************************************)
EXTENDS Naturals, Integers, Sequences, FiniteSets, TLC

VARIABLES
    customers,        \* rows of table 'customers'   (models.py:7-13)
    reservations,     \* rows of table 'reservations' (models.py:24-29)
    nextCustomer,     \* index of the next fresh customer uuid
    nextReservation,  \* index of the next fresh reservation uuid
    req,              \* the request handled last: [op, id, data]
    loaded,           \* the rows its get_or_404 found, as they were then (none or one);
                      \* recorded by the handlers that run in one step
    resp,             \* its response: [status, message]
    inflight          \* per worker: the request between its scan and its write

vars == <<customers, reservations, nextCustomer, nextReservation, req, loaded, resp,
          inflight>>

(***************************************************************************)
(* Bounds                                                                  *)
(***************************************************************************)
\* Size of the table pool.  The source fixes it at 30 (set(range(1, 31)));
\* the model keeps the pool an interval 1..NumTables and checks a small one.
NumTables == 2

\* Fresh uuid4 values in generation order (models.py:9, models.py:26).
CustomerIds == <<"c1", "c2">>
ReservationIds == <<"r1", "r2", "r3">>
\* Ids that no record ever has.
GhostCustomer == "c0"
GhostReservation == "r0"
\* Request workers that can be between scan and write at the same time
Workers == {"w1", "w2"}
\* The n-th uuid4 of a pool; a behaviour stops inserting when the pool is used up
uuid4(pool, n) == IF n <= Len(pool) THEN pool[n] ELSE "exhausted"

(***************************************************************************)
(* Python values                                                           *)
(***************************************************************************)
None == "None"
Absent == "<absent>"
\* dict.get(key): None when the key is missing (a JSON null is None already)
Get(data, key) == IF data[key] = Absent THEN None ELSE data[key]
\* dict.get(key, default)
GetDefault(data, key, default) == IF data[key] = Absent THEN default ELSE data[key]
\* truth value of a str / None / bool
Truthy(v) == v \notin {None, "", "False"}

\* datetime.fromisoformat: the datetime a string denotes, 0 for ValueError.
\* Two spellings of 18:00 denote the same datetime.
ValueError == 0
fromisoformat(s) ==
    CASE s = "2025-09-10T18:00:00" -> 1800
      [] s = "2025-09-10T18:00"    -> 1800
      [] s = "2025-09-10T19:00:00" -> 1900
      [] OTHER                     -> ValueError

\* datetime.isoformat (models.py:36)
isoformat(d) ==
    CASE d = 1800 -> "2025-09-10T18:00:00"
      [] d = 1900 -> "2025-09-10T19:00:00"
      [] OTHER    -> "?"

(***************************************************************************)
(* Responses.  api.abort(code, message) ends the request with status code  *)
(* and body {"message": message}.  Inside a try block the HTTPException it *)
(* raises is caught by "except Exception as e", which aborts again with    *)
(* str(e): the exception's own status line, not the message given first.   *)
(***************************************************************************)
abort(code, message) == [status |-> code, message |-> message]
ok(code) == [status |-> code, message |-> "ok"]

\* str(e) of the exceptions the handlers can see
StrNotFound == "404 Not Found"            \* raised by get_or_404
StrBadRequest == "400 Bad Request"        \* raised by api.abort(400, ...) in a try
StrValueError == "Invalid isoformat string"
StrIntegrityError == "IntegrityError"
StrStaleDataError == "StaleDataError"

(***************************************************************************)
(* Store                                                                   *)
(***************************************************************************)
\* Model.query.get(id): the rows with that primary key (none or one)
query_get(rows, id) == {x \in rows : x.id = id}

\* Bug variant of CustomersValid: email without unique=True
CustomersValid_NoUnique(cs) == \A c \in cs : c.name # None /\ c.email # None

\* Constraints of table customers checked at commit (models.py:10-11)
CustomersValid(cs) ==
    /\ \A c \in cs : c.name # None /\ c.email # None
    /\ \A c, d \in cs : c.email = d.email => c = d

\* Bug variant of rollback: the pending changes stay
rollback_Keep(committed, pending) == pending

\* db.session.rollback(): the pending changes are dropped
rollback(committed, pending) == committed

(***************************************************************************)
(* Customer handlers.  Each returns [customers, resp].                     *)
(***************************************************************************)
\* CustomerList.post (app.py:63-86); uuid is the id the insert generates
CustomerList_post(cs, data, uuid) ==
    LET name == Get(data, "name")
        email == Get(data, "email")
        phone_number == Get(data, "phone_number")
        newsletter_signup == GetDefault(data, "newsletter_signup", "False")
    IN  IF ~Truthy(name) \/ ~Truthy(email)
        THEN [customers |-> cs, resp |-> abort(400, "Name and email are required")]
        ELSE LET customer == [id |-> uuid, name |-> name, email |-> email,
                              phone_number |-> phone_number,
                              \* Column(default=False) fills a None
                              newsletter_signup |->
                                  IF newsletter_signup = None THEN "False"
                                  ELSE newsletter_signup]
                 pending == cs \cup {customer}
             IN  IF CustomersValid(pending)
                 THEN [customers |-> pending, resp |-> ok(201)]
                 ELSE [customers |-> rollback(cs, pending),
                       resp |-> abort(400, StrIntegrityError)]

\* CustomerResource.get (app.py:92-98)
CustomerResource_get(cs, customer_id) ==
    IF query_get(cs, customer_id) = {}
    THEN abort(404, StrNotFound)
    ELSE ok(200)

\* Bug variant of ApplyCustomerFields: "is not None" in place of truthiness
ApplyCustomerFields_NotNone(customer, name, email, phone_number, newsletter_signup) ==
    LET c1 == IF name # None THEN [customer EXCEPT !.name = name] ELSE customer
        c2 == IF email # None THEN [c1 EXCEPT !.email = email] ELSE c1
        c3 == IF phone_number # None
              THEN [c2 EXCEPT !.phone_number = phone_number] ELSE c2
    IN  IF newsletter_signup # None
        THEN [c3 EXCEPT !.newsletter_signup = newsletter_signup] ELSE c3

\* Bug variant of ApplyCustomerFields: the flag is applied only when it is truthy
ApplyCustomerFields_TruthyFlag(customer, name, email, phone_number, newsletter_signup) ==
    LET c1 == IF Truthy(name) THEN [customer EXCEPT !.name = name] ELSE customer
        c2 == IF Truthy(email) THEN [c1 EXCEPT !.email = email] ELSE c1
        c3 == IF Truthy(phone_number)
              THEN [c2 EXCEPT !.phone_number = phone_number] ELSE c2
    IN  IF Truthy(newsletter_signup)
        THEN [c3 EXCEPT !.newsletter_signup = newsletter_signup] ELSE c3

\* The assignments of CustomerResource.put (app.py:113-120)
ApplyCustomerFields(customer, name, email, phone_number, newsletter_signup) ==
    LET c1 == IF Truthy(name) THEN [customer EXCEPT !.name = name] ELSE customer
        c2 == IF Truthy(email) THEN [c1 EXCEPT !.email = email] ELSE c1
        c3 == IF Truthy(phone_number)
              THEN [c2 EXCEPT !.phone_number = phone_number] ELSE c2
    IN  IF newsletter_signup # None
        THEN [c3 EXCEPT !.newsletter_signup = newsletter_signup] ELSE c3

\* Bug variant of CustomerResource.put: the commit does not check the constraints
CustomerResource_put_Unchecked(cs, customer_id, data) ==
    LET found == query_get(cs, customer_id)
    IN  IF found = {}
        THEN [customers |-> cs, resp |-> abort(400, StrNotFound)]
        ELSE [customers |-> (cs \ found) \cup
                  {ApplyCustomerFields(customer, Get(data, "name"), Get(data, "email"),
                                       Get(data, "phone_number"),
                                       Get(data, "newsletter_signup"))
                       : customer \in found},
              resp |-> ok(200)]

\* CustomerResource.put (app.py:103-125)
CustomerResource_put(cs, customer_id, data) ==
    LET name == Get(data, "name")
        email == Get(data, "email")
        phone_number == Get(data, "phone_number")
        newsletter_signup == Get(data, "newsletter_signup")
        found == query_get(cs, customer_id)
    IN  IF found = {}
        THEN [customers |-> rollback(cs, cs), resp |-> abort(400, StrNotFound)]
        ELSE LET customer == CHOOSE c \in found : TRUE
                 pending == (cs \ {customer}) \cup
                     {ApplyCustomerFields(customer, name, email, phone_number,
                                          newsletter_signup)}
             IN  IF CustomersValid(pending)
                 THEN [customers |-> pending, resp |-> ok(200)]
                 ELSE [customers |-> rollback(cs, pending),
                       resp |-> abort(400, StrIntegrityError)]

\* Bug variant of CustomerResource.delete: no check of the customer's reservations
CustomerResource_delete_NoCheck(cs, rs, customer_id) ==
    LET found == query_get(cs, customer_id)
    IN  IF found = {}
        THEN [customers |-> cs, resp |-> abort(400, StrNotFound)]
        ELSE [customers |-> cs \ found, resp |-> ok(200)]

\* CustomerResource.delete (app.py:128-140)
CustomerResource_delete(cs, rs, customer_id) ==
    LET found == query_get(cs, customer_id)
        count == Cardinality({r \in rs : r.customer_id = customer_id})
    IN  IF found = {}
        THEN [customers |-> rollback(cs, cs), resp |-> abort(400, StrNotFound)]
        ELSE IF count > 0
        THEN [customers |-> rollback(cs, cs), resp |-> abort(400, StrBadRequest)]
        ELSE [customers |-> cs \ found, resp |-> ok(200)]

\* CustomerResource.delete up to the count of the reservations (app.py:130-134)
delete_scan(cs, rs, customer_id) ==
    IF query_get(cs, customer_id) = {}
    THEN [failed |-> TRUE, resp |-> abort(400, StrNotFound)]
    ELSE IF Cardinality({r \in rs : r.customer_id = customer_id}) > 0
    THEN [failed |-> TRUE, resp |-> abort(400, StrBadRequest)]
    ELSE [failed |-> FALSE, op |-> "delete", customer_id |-> customer_id]

\* CustomerResource.delete from db.session.delete to the commit (app.py:135-137).
\* The flush loads customer.reservations (models.py:29) and sets their customer_id
\* to NULL, which nullable=False refuses, and the foreign key (models.py:27)
\* refuses the DELETE of a referenced row: either way an IntegrityError.  A DELETE
\* that matches no row (the customer is gone) is a warning or a StaleDataError.
delete_write(cs, rs, scan) ==
    IF query_get(cs, scan.customer_id) = {}
    THEN {[customers |-> cs, resp |-> ok(200)],
          [customers |-> rollback(cs, cs), resp |-> abort(400, StrStaleDataError)]}
    ELSE IF \E r \in rs : r.customer_id = scan.customer_id
    THEN {[customers |-> rollback(cs, cs), resp |-> abort(400, StrIntegrityError)]}
    ELSE {[customers |-> cs \ query_get(cs, scan.customer_id), resp |-> ok(200)]}

(***************************************************************************)
(* Reservation handlers.  Create and update read the occupied tables of    *)
(* the slot (scan) and later commit a row (write); between the two nothing *)
(* is locked.  A scan returns [failed, resp] or [failed, ...locals...].    *)
(***************************************************************************)
\* Bug variants of available_tables: nothing subtracted; every slot's tables subtracted
available_tables_AllFree(rs, time_slot) == 1..NumTables
available_tables_AnySlot(rs, time_slot) ==
    (1..NumTables) \ {t.table_number : t \in rs}

\* app.py:172-174 / app.py:231-233
available_tables(rs, time_slot) ==
    LET reserved_tables == {t.table_number : t \in {r \in rs : r.time_slot = time_slot}}
    IN  (1..NumTables) \ reserved_tables

\* ReservationCreate.post up to the choice of the table (app.py:162-177)
post_scan(cs, rs, data) ==
    LET customer_id == Get(data, "customer_id")
        time_slot == Get(data, "time_slot")
    IN  IF ~Truthy(customer_id) \/ ~Truthy(time_slot)
        THEN [failed |-> TRUE,
              resp |-> abort(400, "Customer ID and time slot are required")]
        ELSE IF fromisoformat(time_slot) = ValueError
        THEN [failed |-> TRUE, resp |-> abort(400, StrValueError)]
        ELSE IF query_get(cs, customer_id) = {}
        THEN [failed |-> TRUE, resp |-> abort(400, StrNotFound)]
        ELSE IF available_tables(rs, fromisoformat(time_slot)) = {}
        THEN [failed |-> TRUE, resp |-> abort(400, StrBadRequest)]
        ELSE [failed |-> FALSE, op |-> "post", customer_id |-> customer_id,
              time_slot |-> fromisoformat(time_slot),
              available_tables |-> available_tables(rs, fromisoformat(time_slot))]

\* Bug variant of post_write: the commit refuses a table taken since the scan, as
\* a unique constraint on (time_slot, table_number) would
post_write_Checked(rs, scan, uuid) ==
    LET free == scan.available_tables \cap available_tables(rs, scan.time_slot)
    IN  IF free = {}
        THEN {[reservations |-> rs, resp |-> abort(400, StrIntegrityError)]}
        ELSE {[reservations |-> rs \cup {[id |-> uuid, customer_id |-> scan.customer_id,
                                          time_slot |-> scan.time_slot,
                                          table_number |-> table_number]},
               resp |-> ok(201)] : table_number \in free}

\* Bug variant of post_write: the lowest free table in place of random.choice
post_write_Lowest(rs, scan, uuid) ==
    {[reservations |-> rs \cup {[id |-> uuid, customer_id |-> scan.customer_id,
                                 time_slot |-> scan.time_slot,
                                 table_number |-> table_number]},
      resp |-> ok(201)] :
        table_number \in {t \in scan.available_tables :
                             \A u \in scan.available_tables : t <= u}}

\* ReservationCreate.post from random.choice to the commit (app.py:179-187)
post_write(rs, scan, uuid) ==
    {[reservations |-> rs \cup {[id |-> uuid, customer_id |-> scan.customer_id,
                                 time_slot |-> scan.time_slot,
                                 table_number |-> table_number]},
      resp |-> ok(201)] : table_number \in scan.available_tables}

\* Bug variant of post_commit: customer_id without ForeignKey('customers.id')
post_commit_NoForeignKey(cs, rs, scan, uuid) == post_write(rs, scan, uuid)

\* The commit of ReservationCreate.post (app.py:185-187) in a store that checks
\* reservations.customer_id against customers.id (models.py:27) when the row is
\* written: the INSERT of a row whose customer is gone is an IntegrityError
post_commit(cs, rs, scan, uuid) ==
    IF query_get(cs, scan.customer_id) = {}
    THEN {[reservations |-> rollback(rs, rs), resp |-> abort(400, StrIntegrityError)]}
    ELSE post_write(rs, scan, uuid)

\* Bug variant of ReservationCreate.post: the customer_id is stored as given, with
\* neither the get_or_404 of the customer nor a foreign key
ReservationCreate_post_AnyCustomer(cs, rs, data, uuid) ==
    LET customer_id == Get(data, "customer_id")
        time_slot == Get(data, "time_slot")
    IN  IF ~Truthy(customer_id) \/ ~Truthy(time_slot)
        THEN {[reservations |-> rs,
               resp |-> abort(400, "Customer ID and time slot are required")]}
        ELSE IF fromisoformat(time_slot) = ValueError
        THEN {[reservations |-> rs, resp |-> abort(400, StrValueError)]}
        ELSE IF available_tables(rs, fromisoformat(time_slot)) = {}
        THEN {[reservations |-> rs, resp |-> abort(400, StrBadRequest)]}
        ELSE {[reservations |-> rs \cup {[id |-> uuid, customer_id |-> customer_id,
                                          time_slot |-> fromisoformat(time_slot),
                                          table_number |-> table_number]},
               resp |-> ok(201)] :
                 table_number \in available_tables(rs, fromisoformat(time_slot))}

\* ReservationCreate.post (app.py:160-190), run without interleaving
ReservationCreate_post(cs, rs, data, uuid) ==
    LET scan == post_scan(cs, rs, data)
    IN  IF scan.failed
        THEN {[reservations |-> rollback(rs, rs), resp |-> scan.resp]}
        ELSE post_commit(cs, rs, scan, uuid)

\* Bug variant of put_scan: the reservation's own table is not counted as occupied
put_scan_ExemptSelf(rs, reservation_id, data) ==
    LET time_slot == Get(data, "time_slot")
        others == rs \ query_get(rs, reservation_id)
    IN  IF ~Truthy(time_slot)
        THEN [failed |-> TRUE, resp |-> abort(400, "Time slot is required")]
        ELSE IF query_get(rs, reservation_id) = {}
        THEN [failed |-> TRUE, resp |-> abort(400, StrNotFound)]
        ELSE IF fromisoformat(time_slot) = ValueError
        THEN [failed |-> TRUE, resp |-> abort(400, StrValueError)]
        ELSE IF available_tables(others, fromisoformat(time_slot)) = {}
        THEN [failed |-> TRUE, resp |-> abort(400, StrBadRequest)]
        ELSE [failed |-> FALSE, op |-> "put", reservation_id |-> reservation_id,
              time_slot |-> fromisoformat(time_slot),
              available_tables |-> available_tables(others, fromisoformat(time_slot))]

\* ReservationResource.put up to the choice of the table (app.py:222-236)
put_scan(rs, reservation_id, data) ==
    LET time_slot == Get(data, "time_slot")
    IN  IF ~Truthy(time_slot)
        THEN [failed |-> TRUE, resp |-> abort(400, "Time slot is required")]
        ELSE IF query_get(rs, reservation_id) = {}
        THEN [failed |-> TRUE, resp |-> abort(400, StrNotFound)]
        ELSE IF fromisoformat(time_slot) = ValueError
        THEN [failed |-> TRUE, resp |-> abort(400, StrValueError)]
        ELSE IF available_tables(rs, fromisoformat(time_slot)) = {}
        THEN [failed |-> TRUE, resp |-> abort(400, StrBadRequest)]
        ELSE [failed |-> FALSE, op |-> "put", reservation_id |-> reservation_id,
              time_slot |-> fromisoformat(time_slot),
              available_tables |-> available_tables(rs, fromisoformat(time_slot))]

\* Bug variant of put_write: the assignment of time_slot (app.py:238) is missing
put_write_KeepSlot(rs, scan) ==
    LET found == query_get(rs, scan.reservation_id)
    IN  IF found = {}
        THEN {[reservations |-> rs, resp |-> abort(400, StrStaleDataError)]}
        ELSE {[reservations |-> (rs \ found) \cup
                   {[reservation EXCEPT !.table_number = table_number]
                        : reservation \in found},
               resp |-> ok(200)] : table_number \in scan.available_tables}

\* Bug variant of put_write: the row is replaced by a new one without its customer
put_write_Replace(rs, scan) ==
    LET found == query_get(rs, scan.reservation_id)
    IN  IF found = {}
        THEN {[reservations |-> rs, resp |-> abort(400, StrStaleDataError)]}
        ELSE {[reservations |-> (rs \ found) \cup
                   {[id |-> scan.reservation_id, customer_id |-> None,
                     time_slot |-> scan.time_slot, table_number |-> table_number]},
               resp |-> ok(200)] : table_number \in scan.available_tables}

\* Bug variant of put_write: a reservation that stays in its slot keeps its table
put_write_SameTable(rs, scan) ==
    LET found == query_get(rs, scan.reservation_id)
    IN  IF found = {}
        THEN {[reservations |-> rs, resp |-> abort(400, StrStaleDataError)]}
        ELSE {[reservations |-> (rs \ found) \cup
                   {[reservation EXCEPT !.time_slot = scan.time_slot,
                                        !.table_number =
                                            IF reservation.time_slot = scan.time_slot
                                            THEN reservation.table_number
                                            ELSE table_number]
                        : reservation \in found},
               resp |-> ok(200)] : table_number \in scan.available_tables}

\* ReservationResource.put from the assignments to the commit (app.py:238-241):
\* UPDATE ... WHERE id = reservation_id; no row matched is a StaleDataError
put_write(rs, scan) ==
    LET found == query_get(rs, scan.reservation_id)
    IN  IF found = {}
        THEN {[reservations |-> rollback(rs, rs), resp |-> abort(400, StrStaleDataError)]}
        ELSE {[reservations |-> (rs \ found) \cup
                   {[reservation EXCEPT !.time_slot = scan.time_slot,
                                        !.table_number = table_number]
                        : reservation \in found},
               resp |-> ok(200)] : table_number \in scan.available_tables}

\* ReservationResource.put (app.py:220-244), run without interleaving
ReservationResource_put(rs, reservation_id, data) ==
    LET scan == put_scan(rs, reservation_id, data)
    IN  IF scan.failed
        THEN {[reservations |-> rollback(rs, rs), resp |-> scan.resp]}
        ELSE put_write(rs, scan)

\* Bug variant of ReservationResource.delete: db.session.delete is missing
ReservationResource_delete_Keep(rs, reservation_id) ==
    IF query_get(rs, reservation_id) = {}
    THEN [reservations |-> rs, resp |-> abort(400, StrNotFound)]
    ELSE [reservations |-> rs, resp |-> ok(200)]

\* ReservationResource.delete (app.py:247-256)
ReservationResource_delete(rs, reservation_id) ==
    LET found == query_get(rs, reservation_id)
    IN  IF found = {}
        THEN [reservations |-> rollback(rs, rs), resp |-> abort(400, StrNotFound)]
        ELSE [reservations |-> rs \ found, resp |-> ok(200)]

\* ReservationResource.get (app.py:209-215)
ReservationResource_get(rs, reservation_id) ==
    IF query_get(rs, reservation_id) = {}
    THEN abort(404, StrNotFound)
    ELSE ok(200)

\* CustomerReservations.get (app.py:196-203)
CustomerReservations_get(cs, customer_id) ==
    IF query_get(cs, customer_id) = {}
    THEN abort(404, StrNotFound)
    ELSE ok(200)

(***************************************************************************)
(* Requests                                                                *)
(***************************************************************************)
NoBody == [none |-> Absent]
request(op, id, data) == [op |-> op, id |-> id, data |-> data]
\* the row a successful get_or_404 returns
row(found) == CHOOSE x \in found : TRUE

customer_body(name, email, phone_number, newsletter_signup) ==
    [name |-> name, email |-> email, phone_number |-> phone_number,
     newsletter_signup |-> newsletter_signup]
reservation_body(customer_id, time_slot) ==
    [customer_id |-> customer_id, time_slot |-> time_slot]

\* Path parameters: every id that is ever generated, and one that never is
CustomerPaths == {CustomerIds[i] : i \in 1..Len(CustomerIds)} \cup {GhostCustomer}
ReservationPaths ==
    {ReservationIds[i] : i \in 1..Len(ReservationIds)} \cup {GhostReservation}

\* Request bodies of the specification of the whole server
SlotStrings == {"2025-09-10T18:00:00", "2025-09-10T18:00", "2025-09-10T19:00:00"}
PostCustomerBodies ==
    {customer_body("Ada", "ada@x", Absent, Absent),
     customer_body("", "ada@x", Absent, Absent)}
PutCustomerBodies == {customer_body("Eve", "bob@x", Absent, Absent)}

\* Request bodies of the specification of the customer store alone
PostCustomerProfiles ==
    {customer_body("Ada", "ada@x", Absent, Absent),
     customer_body("Bob", "bob@x", "555", "True"),
     customer_body("Bob", "ada@x", None, None),
     customer_body("", "bob@x", Absent, Absent),
     customer_body("Ada", Absent, "555", "True")}
PutCustomerProfiles ==
    {customer_body(Absent, Absent, Absent, Absent),
     customer_body("", None, "", None),
     customer_body("Eve", "bob@x", "777", "True"),
     customer_body("Eve", "", Absent, "False")}
    \cup {customer_body(v, Absent, Absent, Absent) : v \in {None, "", "Eve"}}
    \cup {customer_body(Absent, v, Absent, Absent) : v \in {None, "", "ada@x"}}
    \cup {customer_body(Absent, Absent, v, Absent) : v \in {None, "", "777"}}
    \cup {customer_body(Absent, Absent, Absent, v) : v \in {None, "True", "False"}}
PostReservationBodies ==
    {reservation_body(c, t) : c \in CustomerPaths \ {GhostCustomer}, t \in SlotStrings}
    \cup {reservation_body(GhostCustomer, "2025-09-10T18:00"),
          reservation_body("c1", "tomorrow"),
          reservation_body(Absent, "2025-09-10T18:00"),
          reservation_body("c1", "")}
PutReservationBodies ==
    {reservation_body(Absent, t) :
        t \in {"2025-09-10T18:00", "2025-09-10T19:00:00", "tomorrow", Absent}}

(***************************************************************************)
(* Actions: one per handler, requests handled one at a time                *)
(***************************************************************************)
Idle == [failed |-> TRUE]

Init ==
    /\ customers = {}
    /\ reservations = {}
    /\ nextCustomer = 1
    /\ nextReservation = 1
    /\ req = request("none", None, NoBody)
    /\ loaded = {}
    /\ resp = ok(0)
    /\ inflight = [w \in Workers |-> Idle]

CustomerCreate(data) ==
    /\ LET out == CustomerList_post(customers, data, uuid4(CustomerIds, nextCustomer))
       IN  /\ out.resp.status = 201 => nextCustomer <= Len(CustomerIds)
           /\ customers' = out.customers
           /\ resp' = out.resp
           /\ nextCustomer' = IF out.resp.status = 201 THEN nextCustomer + 1
                              ELSE nextCustomer
    /\ req' = request("customer_post", None, data)
    /\ loaded' = {}
    /\ UNCHANGED <<reservations, nextReservation, inflight>>

CustomerGet(customer_id) ==
    /\ resp' = CustomerResource_get(customers, customer_id)
    /\ req' = request("customer_get", customer_id, NoBody)
    /\ loaded' = (query_get(customers, customer_id))
    /\ UNCHANGED <<customers, reservations, nextCustomer, nextReservation, inflight>>

CustomerUpdate(customer_id, data) ==
    /\ LET out == CustomerResource_put(customers, customer_id, data)
       IN  customers' = out.customers /\ resp' = out.resp
    /\ req' = request("customer_put", customer_id, data)
    /\ loaded' = (query_get(customers, customer_id))
    /\ UNCHANGED <<reservations, nextCustomer, nextReservation, inflight>>

CustomerDelete(customer_id) ==
    /\ LET out == CustomerResource_delete(customers, reservations, customer_id)
       IN  customers' = out.customers /\ resp' = out.resp
    /\ req' = request("customer_delete", customer_id, NoBody)
    /\ loaded' = (query_get(customers, customer_id))
    /\ UNCHANGED <<reservations, nextCustomer, nextReservation, inflight>>

ReservationCreate(data) ==
    /\ \E out \in ReservationCreate_post(customers, reservations, data,
                                         uuid4(ReservationIds, nextReservation)) :
           /\ out.resp.status = 201 => nextReservation <= Len(ReservationIds)
           /\ reservations' = out.reservations
           /\ resp' = out.resp
           /\ nextReservation' = IF out.resp.status = 201 THEN nextReservation + 1
                                 ELSE nextReservation
    /\ req' = request("reservation_post", None, data)
    /\ loaded' = {}
    /\ UNCHANGED <<customers, nextCustomer, inflight>>

ReservationsOfCustomer(customer_id) ==
    /\ resp' = CustomerReservations_get(customers, customer_id)
    /\ req' = request("customer_reservations_get", customer_id, NoBody)
    /\ loaded' = (query_get(customers, customer_id))
    /\ UNCHANGED <<customers, reservations, nextCustomer, nextReservation, inflight>>

ReservationGet(reservation_id) ==
    /\ resp' = ReservationResource_get(reservations, reservation_id)
    /\ req' = request("reservation_get", reservation_id, NoBody)
    /\ loaded' = (query_get(reservations, reservation_id))
    /\ UNCHANGED <<customers, reservations, nextCustomer, nextReservation, inflight>>

ReservationUpdate(reservation_id, data) ==
    /\ \E out \in ReservationResource_put(reservations, reservation_id, data) :
           reservations' = out.reservations /\ resp' = out.resp
    /\ req' = request("reservation_put", reservation_id, data)
    /\ loaded' = (query_get(reservations, reservation_id))
    /\ UNCHANGED <<customers, nextCustomer, nextReservation, inflight>>

ReservationDelete(reservation_id) ==
    /\ LET out == ReservationResource_delete(reservations, reservation_id)
       IN  reservations' = out.reservations /\ resp' = out.resp
    /\ req' = request("reservation_delete", reservation_id, NoBody)
    /\ loaded' = (query_get(reservations, reservation_id))
    /\ UNCHANGED <<customers, nextCustomer, nextReservation, inflight>>

Next ==
    \/ \E data \in PostCustomerBodies : CustomerCreate(data)
    \/ \E id \in CustomerPaths : CustomerGet(id)
    \/ \E id \in CustomerPaths, data \in PutCustomerBodies : CustomerUpdate(id, data)
    \/ \E id \in CustomerPaths : CustomerDelete(id)
    \/ \E data \in PostReservationBodies : ReservationCreate(data)
    \/ \E id \in CustomerPaths : ReservationsOfCustomer(id)
    \/ \E id \in ReservationPaths : ReservationGet(id)
    \/ \E id \in ReservationPaths, data \in PutReservationBodies :
           ReservationUpdate(id, data)
    \/ \E id \in ReservationPaths : ReservationDelete(id)

Spec == Init /\ [][Next]_vars

\* The customer store alone, with the full variety of customer bodies
NextCustomers ==
    \/ \E data \in PostCustomerProfiles : CustomerCreate(data)
    \/ \E id \in CustomerPaths : CustomerGet(id)
    \/ \E id \in CustomerPaths, data \in PutCustomerProfiles : CustomerUpdate(id, data)
    \/ \E id \in CustomerPaths : CustomerDelete(id)

SpecCustomers == Init /\ [][NextCustomers]_vars

(***************************************************************************)
(* Concurrent requests.  Every request has its own session; a reservation  *)
(* create or update first scans (validation, lookups, the query of the     *)
(* occupied tables) and commits later, and other requests run in between.  *)
(***************************************************************************)
ConcPostCustomerBodies == {customer_body("Ada", "ada@x", Absent, Absent)}
ConcPostReservationBodies ==
    {reservation_body("c1", t) : t \in {"2025-09-10T18:00:00"}}
ConcReservationPaths == {ReservationIds[i] : i \in 1..Len(ReservationIds)}
ConcPutReservationBodies ==
    {reservation_body(Absent, t) : t \in {"2025-09-10T18:00", "2025-09-10T19:00:00"}}

Pending(w) == ~inflight[w].failed

\* A request that fails in its scan is answered at once
PostScan(w, data) ==
    /\ ~Pending(w)
    /\ LET scan == post_scan(customers, reservations, data)
       IN  IF scan.failed
           THEN /\ req' = request("reservation_post", None, data)
                /\ loaded' = {}
                /\ resp' = scan.resp
                /\ UNCHANGED inflight
           ELSE /\ inflight' = [inflight EXCEPT ![w] =
                       [failed |-> FALSE, scan |-> scan,
                        req |-> request("reservation_post", None, data)]]
                /\ UNCHANGED <<req, loaded, resp>>
    /\ UNCHANGED <<customers, reservations, nextCustomer, nextReservation>>

PostWrite(w) ==
    /\ Pending(w) /\ inflight[w].scan.op = "post"
    /\ nextReservation <= Len(ReservationIds)
    /\ \E out \in post_commit(customers, reservations, inflight[w].scan,
                              uuid4(ReservationIds, nextReservation)) :
           /\ reservations' = out.reservations
           /\ resp' = out.resp
           /\ nextReservation' = IF out.resp.status = 201 THEN nextReservation + 1
                                 ELSE nextReservation
    /\ req' = inflight[w].req
    /\ loaded' = {}
    /\ inflight' = [inflight EXCEPT ![w] = Idle]
    /\ UNCHANGED <<customers, nextCustomer>>

PutScan(w, reservation_id, data) ==
    /\ ~Pending(w)
    /\ LET scan == put_scan(reservations, reservation_id, data)
       IN  IF scan.failed
           THEN /\ req' = request("reservation_put", reservation_id, data)
                /\ loaded' = {}
                /\ resp' = scan.resp
                /\ UNCHANGED inflight
           ELSE /\ inflight' = [inflight EXCEPT ![w] =
                       [failed |-> FALSE, scan |-> scan,
                        req |-> request("reservation_put", reservation_id, data)]]
                /\ UNCHANGED <<req, loaded, resp>>
    /\ UNCHANGED <<customers, reservations, nextCustomer, nextReservation>>

PutWrite(w) ==
    /\ Pending(w) /\ inflight[w].scan.op = "put"
    /\ \E out \in put_write(reservations, inflight[w].scan) :
           reservations' = out.reservations /\ resp' = out.resp
    /\ req' = inflight[w].req
    /\ loaded' = {}
    /\ inflight' = [inflight EXCEPT ![w] = Idle]
    /\ UNCHANGED <<customers, nextCustomer, nextReservation>>

NextConc ==
    \/ \E data \in ConcPostCustomerBodies : CustomerCreate(data)
    \/ \E w \in Workers, data \in ConcPostReservationBodies : PostScan(w, data)
    \/ \E w \in Workers : PostWrite(w)
    \/ \E w \in Workers, id \in ConcReservationPaths, data \in ConcPutReservationBodies :
           PutScan(w, id, data)
    \/ \E w \in Workers : PutWrite(w)

SpecConc == Init /\ [][NextConc]_vars

(***************************************************************************)
(* Customer delete interleaved with reservation create: the delete counts  *)
(* the customer's reservations (scan) and removes the customer later       *)
(* (write), the create looks the customer up and inserts later.            *)
(***************************************************************************)
RefsCustomerPaths == {CustomerIds[i] : i \in 1..Len(CustomerIds)}
RefsPostReservationBodies ==
    {reservation_body(c, "2025-09-10T18:00:00") : c \in RefsCustomerPaths}

DeleteScan(w, customer_id) ==
    /\ ~Pending(w)
    /\ LET scan == delete_scan(customers, reservations, customer_id)
       IN  IF scan.failed
           THEN /\ req' = request("customer_delete", customer_id, NoBody)
                /\ loaded' = {}
                /\ resp' = scan.resp
                /\ UNCHANGED inflight
           ELSE /\ inflight' = [inflight EXCEPT ![w] =
                       [failed |-> FALSE, scan |-> scan,
                        req |-> request("customer_delete", customer_id, NoBody)]]
                /\ UNCHANGED <<req, loaded, resp>>
    /\ UNCHANGED <<customers, reservations, nextCustomer, nextReservation>>

DeleteWrite(w) ==
    /\ Pending(w) /\ inflight[w].scan.op = "delete"
    /\ \E out \in delete_write(customers, reservations, inflight[w].scan) :
           customers' = out.customers /\ resp' = out.resp
    /\ req' = inflight[w].req
    /\ loaded' = {}
    /\ inflight' = [inflight EXCEPT ![w] = Idle]
    /\ UNCHANGED <<reservations, nextCustomer, nextReservation>>

NextRefs ==
    \/ \E data \in ConcPostCustomerBodies : CustomerCreate(data)
    \/ \E w \in Workers, data \in RefsPostReservationBodies : PostScan(w, data)
    \/ \E w \in Workers : PostWrite(w)
    \/ \E w \in Workers, id \in RefsCustomerPaths : DeleteScan(w, id)
    \/ \E w \in Workers : DeleteWrite(w)
    \/ \E id \in ConcReservationPaths : ReservationDelete(id)

SpecRefs == Init /\ [][NextRefs]_vars

(***************************************************************************)
(* Properties                                                              *)
(***************************************************************************)
ReservationsAt(rs, time_slot) == {r \in rs : r.time_slot = time_slot}
Parsable(s) == Truthy(s) /\ fromisoformat(s) # ValueError
Exists(rows, id) == query_get(rows, id) # {}
Failed(r) == r.status \notin {200, 201}
\* The conflict failures: the BadRequest that api.abort(400, ...) raises inside the
\* try block, answered as status 400
Conflict == abort(400, StrBadRequest)

\* C1: with requests handled one at a time, in every reachable state no two
\* distinct reservations hold the same table_number at the same time_slot.
C1_NoDoubleBooking ==
    \A a, b \in reservations :
        (a.time_slot = b.time_slot /\ a.table_number = b.table_number) => a = b

\* A slot is full, one reservation was deleted before, and an update just succeeded.
C1_Witness ==
    /\ req.op = "reservation_put" /\ resp.status = 200
    /\ Cardinality(ReservationsAt(reservations, 1800)) = NumTables
    /\ Cardinality(reservations) < nextReservation - 1

\* C2: a reservation create with a parsable time_slot S and an existing customer
\* succeeds, adding one reservation at S, exactly when fewer than NumTables
\* reservations hold S, whatever the other slots hold; otherwise it fails with the
\* conflict failure and adds nothing.
C2_CreateIffTableFree ==
    [][(/\ req'.op = "reservation_post"
        /\ Parsable(Get(req'.data, "time_slot"))
        /\ Exists(customers, Get(req'.data, "customer_id")))
       => LET S == fromisoformat(Get(req'.data, "time_slot"))
          IN  IF Cardinality(ReservationsAt(reservations, S)) < NumTables
              THEN /\ resp'.status = 201
                   /\ \E r \in reservations' \ reservations :
                         /\ reservations' = reservations \cup {r}
                         /\ r.time_slot = S
                         /\ r.customer_id = Get(req'.data, "customer_id")
              ELSE /\ resp' = Conflict
                   /\ reservations' = reservations]_vars

\* The create after the last table of 18:00 was taken failed, while 19:00 holds
\* fewer reservations.
C2_Witness ==
    /\ req.op = "reservation_post" /\ resp = Conflict
    /\ fromisoformat(req.data.time_slot) = 1800
    /\ Cardinality(ReservationsAt(reservations, 1800)) = NumTables
    /\ Cardinality(ReservationsAt(reservations, 1900)) < NumTables
    /\ ReservationsAt(reservations, 1900) # {}

\* C4: after a successful reservation update from slot A to a different slot B the
\* reservation holds no table at A, every other reservation of A is untouched, and
\* if A held NumTables reservations before, a create at A (in any spelling of A)
\* for any existing customer succeeds.
C4_UpdateFreesOldSlot ==
    [][(/\ req'.op = "reservation_put" /\ resp'.status = 200
        /\ row(loaded').time_slot # fromisoformat(Get(req'.data, "time_slot")))
       => LET A == row(loaded').time_slot
          IN  /\ \A r \in ReservationsAt(reservations', A) : r.id # req'.id
              /\ ReservationsAt(reservations', A)
                    = ReservationsAt(reservations, A) \ loaded'
              /\ Cardinality(ReservationsAt(reservations, A)) = NumTables
                  => \A c \in customers', s \in {x \in SlotStrings : fromisoformat(x) = A} :
                        LET outs == ReservationCreate_post(customers', reservations',
                                        reservation_body(c.id, s), "r_next")
                        IN  /\ outs # {}
                            /\ \A o \in outs :
                                  /\ o.resp.status = 201
                                  /\ Cardinality(ReservationsAt(o.reservations, A))
                                        = NumTables]_vars

\* An update has just moved a reservation out of a slot that was full.
C4_Witness ==
    /\ req.op = "reservation_put" /\ resp.status = 200
    /\ \E old \in loaded, r \in reservations :
          /\ r.id = req.id /\ r.time_slot # old.time_slot
          /\ Cardinality(ReservationsAt(reservations, old.time_slot)) = NumTables - 1
    /\ customers # {}

\* C5: a customer delete fails with the conflict failure and leaves the customer
\* in place whenever a reservation references the customer; for an existing
\* customer that no reservation references it succeeds, removes exactly that
\* record, and a get of the id afterwards answers 404.
C5_DeleteCustomer ==
    [][req'.op = "customer_delete"
       => IF \E r \in reservations : r.customer_id = req'.id
          THEN /\ resp' = Conflict
               /\ customers' = customers
               /\ Exists(customers', req'.id)
          ELSE Exists(customers, req'.id)
               => /\ resp'.status = 200
                  /\ customers' = customers \ query_get(customers, req'.id)
                  /\ CustomerResource_get(customers', req'.id)
                        = abort(404, StrNotFound)]_vars

\* A delete of a customer with a reservation has just been refused.
C5_Witness ==
    /\ req.op = "customer_delete" /\ resp = Conflict
    /\ Exists(customers, req.id)
    /\ \E r \in reservations : r.customer_id = req.id

\* C6: a customer create whose email an existing customer holds fails with status
\* 400 (the store's IntegrityError when the name is given) and leaves the set of
\* customer records unchanged.
C6_DuplicateEmailRejected ==
    [][(/\ req'.op = "customer_post"
        /\ \E c \in customers : c.email = Get(req'.data, "email"))
       => /\ resp'.status = 400
          /\ Truthy(Get(req'.data, "name")) => resp'.message = StrIntegrityError
          /\ customers' = customers
          /\ nextCustomer' = nextCustomer]_vars

\* A create with the email of an existing customer, and another name, was refused.
C6_Witness ==
    /\ req.op = "customer_post" /\ resp = abort(400, StrIntegrityError)
    /\ \E c \in customers : c.email = req.data.email /\ c.name # req.data.name

\* C7: every operation that ends in a failure leaves customers and reservations
\* exactly as they were; a failed reservation update keeps the reservation's
\* time_slot and table_number.
C7_FailureLeavesStore ==
    [][Failed(resp') => customers' = customers /\ reservations' = reservations]_vars

\* A reservation update has just failed for lack of a table; the row is as loaded.
C7_Witness ==
    /\ req.op = "reservation_put" /\ resp = Conflict
    /\ \E old \in loaded :
          old \in reservations /\ fromisoformat(req.data.time_slot) # old.time_slot

\* An operation addressed to an id without a record, whose body passes validation
MissingTarget(r, cs, rs) ==
    \/ /\ r.op \in {"customer_get", "customer_put", "customer_delete",
                    "customer_reservations_get"}
       /\ ~Exists(cs, r.id)
    \/ /\ r.op \in {"reservation_get", "reservation_delete"}
       /\ ~Exists(rs, r.id)
    \/ /\ r.op = "reservation_put"
       /\ Truthy(Get(r.data, "time_slot"))
       /\ ~Exists(rs, r.id)
    \/ /\ r.op = "reservation_post"
       /\ Truthy(Get(r.data, "customer_id"))
       /\ Parsable(Get(r.data, "time_slot"))
       /\ ~Exists(cs, Get(r.data, "customer_id"))

\* C8: every operation addressed to an id that does not exist answers with the
\* not-found status 404, which the validation, conflict and storage failures
\* (status 400) never carry.
C8_NotFoundKind ==
    [][MissingTarget(req', customers, reservations) => resp'.status = 404]_vars

\* C9: a reservation update whose new time_slot is the reservation's current slot
\* fails with the conflict failure when that slot holds NumTables reservations,
\* the updated one included, and the reservation keeps its slot and table.
C9_SameSlotFullFails ==
    [][(/\ req'.op = "reservation_put"
        /\ Exists(reservations, req'.id)
        /\ Parsable(Get(req'.data, "time_slot"))
        /\ fromisoformat(Get(req'.data, "time_slot"))
             = row(query_get(reservations, req'.id)).time_slot
        /\ Cardinality(ReservationsAt(reservations,
                fromisoformat(Get(req'.data, "time_slot")))) = NumTables)
       => /\ resp' = Conflict
          /\ reservations' = reservations]_vars

\* An update to the reservation's own, full slot has just been refused.
C9_Witness ==
    /\ req.op = "reservation_put" /\ resp = Conflict
    /\ \E old \in loaded :
          /\ old \in reservations
          /\ fromisoformat(req.data.time_slot) = old.time_slot
          /\ Cardinality(ReservationsAt(reservations, old.time_slot)) = NumTables

\* C10: a customer update leaves name, email and phone_number as stored when the
\* request value is absent, null or the empty string, never touches a field the
\* request does not name, nor the id, nor another customer; a successful update
\* stores every non-empty value given.
C10_UpdateSkipsEmptyFields ==
    [][(req'.op = "customer_put" /\ Exists(customers, req'.id))
       => LET old == row(query_get(customers, req'.id))
              new == row(query_get(customers', req'.id))
              data == req'.data
          IN  /\ Exists(customers', req'.id)
              /\ customers' \ {new} = customers \ {old}
              /\ \A f \in {"name", "email", "phone_number"} :
                    /\ data[f] \in {Absent, None, ""} => new[f] = old[f]
                    /\ new[f] \in {old[f], data[f]}
                    /\ (resp'.status = 200 /\ data[f] \notin {Absent, None, ""})
                       => new[f] = data[f]
              /\ data.newsletter_signup = Absent
                 => new.newsletter_signup = old.newsletter_signup]_vars

\* An update giving "" for name and phone_number and null for email succeeded on
\* a customer with a stored phone number, and the record is as it was loaded.
C10_Witness ==
    /\ req.op = "customer_put" /\ resp.status = 200
    /\ req.data = customer_body("", None, "", None)
    /\ \E old \in loaded : old \in customers /\ old.phone_number = "555"

\* C3: the commit of a reservation create or update does not look at the slot
\* again.  A create that has scanned always succeeds at its write and adds a row
\* with a table of the set it scanned as available; an update that has scanned
\* succeeds whenever its row still exists and gives it such a table; in both cases
\* also when another request has taken that table at the slot since the scan.
C3_WriteIgnoresLaterBookings ==
    [][\A w \in Workers :
          (Pending(w) /\ ~Pending(w)')
          => LET scan == inflight[w].scan
             IN  IF scan.op = "post"
                 THEN /\ resp'.status = 201
                      /\ \E r \in reservations' \ reservations :
                            /\ reservations' = reservations \cup {r}
                            /\ r.time_slot = scan.time_slot
                            /\ r.table_number \in scan.available_tables
                 ELSE Exists(reservations, scan.reservation_id)
                      => /\ resp'.status = 200
                         /\ \E r \in reservations' :
                               /\ r.id = scan.reservation_id
                               /\ r.time_slot = scan.time_slot
                               /\ r.table_number \in scan.available_tables]_vars

\* One table of 18:00 was free; two requests scanned it and both committed it: the
\* slot holds more reservations than there are tables, two of them on one table.
C3_Witness ==
    /\ resp.status \in {200, 201}
    /\ Cardinality(ReservationsAt(reservations, 1800)) = NumTables + 1
    /\ \E a, b \in ReservationsAt(reservations, 1800) :
          a.id # b.id /\ a.table_number = b.table_number

\* C11: in every reachable state no two customers have the same email, whatever
\* customer creates and updates came before; a customer update that sets email to
\* a value another customer holds fails (status 400, the store's IntegrityError)
\* and leaves every customer record, the two involved included, unchanged.
C11_EmailUnique ==
    /\ [](\A c, d \in customers : c.email = d.email => c.id = d.id)
    /\ [][(/\ req'.op = "customer_put"
            /\ Exists(customers, req'.id)
            /\ \E d \in customers :
                  d.id # req'.id /\ d.email = Get(req'.data, "email"))
           => /\ resp' = abort(400, StrIntegrityError)
              /\ customers' = customers]_vars

\* An update of one customer to the email of the other has just been refused; both
\* are stored as before, with different emails.
C11_Witness ==
    /\ req.op = "customer_put" /\ resp = abort(400, StrIntegrityError)
    /\ \E old \in loaded, d \in customers :
          /\ old \in customers
          /\ d.id # old.id /\ d.email = req.data.email /\ old.email # d.email

\* C12: with requests handled one at a time, in every reachable state the
\* customer_id of each reservation is the id of a customer that exists; a
\* reservation create naming a customer without a record fails and adds nothing,
\* and a customer delete leaves in place a customer that a reservation references.
C12_ReservationsHaveCustomer ==
    /\ [](\A r \in reservations : Exists(customers, r.customer_id))
    /\ [][/\ (req'.op = "reservation_post"
                /\ ~Exists(customers, Get(req'.data, "customer_id")))
               => (Failed(resp') /\ reservations' = reservations)
          /\ (req'.op = "customer_delete"
               /\ \E r \in reservations : r.customer_id = req'.id)
              => (Failed(resp') /\ customers' = customers)]_vars

\* A create for a customer that was deleted before has just been refused, while
\* another customer holds a reservation.
C12_Witness ==
    /\ req.op = "reservation_post" /\ resp = abort(400, StrNotFound)
    /\ req.data.customer_id \in {CustomerIds[i] : i \in 1..(nextCustomer - 1)}
    /\ ~Exists(customers, req.data.customer_id)
    /\ reservations # {}

\* The table numbers a create can assign in the store (cs, rs)
CreateTables(cs, rs, data) ==
    {r.table_number : r \in UNION {o.reservations \ rs :
        o \in {x \in ReservationCreate_post(cs, rs, data, "r_next") :
                  x.resp.status = 201}}}
\* The table numbers an update of reservation_id can assign in the store rs
UpdateTables(rs, reservation_id, data) ==
    {r.table_number : r \in UNION {query_get(o.reservations, reservation_id) :
        o \in {x \in ReservationResource_put(rs, reservation_id, data) :
                  x.resp.status = 200}}}

\* C13: the table_number a successful reservation create or update assigns is a
\* member of the pool 1..NumTables minus the tables held at exactly the target
\* slot when the handler scans, and every member of that set is an outcome the
\* handler can produce: the choice is not forced to the lowest free table.
C13_AnyFreeTable ==
    /\ [](/\ \A data \in PostReservationBodies :
               (Parsable(Get(data, "time_slot"))
                /\ Exists(customers, Get(data, "customer_id")))
               => CreateTables(customers, reservations, data)
                     = (1..NumTables) \
                       {r.table_number : r \in ReservationsAt(reservations,
                            fromisoformat(Get(data, "time_slot")))}
          /\ \A id \in ReservationPaths, data \in PutReservationBodies :
              (Parsable(Get(data, "time_slot")) /\ Exists(reservations, id))
              => UpdateTables(reservations, id, data)
                    = (1..NumTables) \
                      {r.table_number : r \in ReservationsAt(reservations,
                           fromisoformat(Get(data, "time_slot")))})
    /\ [][(req'.op \in {"reservation_post", "reservation_put"} /\ ~Failed(resp'))
           => \E r \in reservations' \ reservations :
                 /\ r.time_slot = fromisoformat(Get(req'.data, "time_slot"))
                 /\ r.table_number \in 1..NumTables
                 /\ \A o \in ReservationsAt(reservations, r.time_slot) :
                       o.table_number # r.table_number]_vars

\* A create has just been given a table that is not the lowest free one of its
\* slot, and an update can now move another reservation to either table of 19:00.
C13_Witness ==
    /\ req.op = "reservation_post" /\ resp.status = 201
    /\ \E r \in reservations :
          /\ r.id = ReservationIds[nextReservation - 1]
          /\ \E t \in 1..NumTables :
                /\ t < r.table_number
                /\ \A o \in ReservationsAt(reservations, r.time_slot) :
                      o.table_number # t
    /\ \E o \in reservations :
          Cardinality(UpdateTables(reservations, o.id,
                          reservation_body(Absent, "2025-09-10T19:00:00"))) > 1

\* C14: a successful reservation update changes only time_slot and table_number
\* of the reservation it addresses: that reservation keeps its id and customer_id,
\* every other reservation and every customer record stay as they were.
C14_UpdateFrame ==
    [][(req'.op = "reservation_put" /\ resp'.status = 200)
       => /\ customers' = customers
          /\ \E old \in reservations, new \in reservations' :
                /\ old.id = req'.id
                /\ new = [old EXCEPT !.time_slot = new.time_slot,
                                     !.table_number = new.table_number]
                /\ reservations' \ {new} = reservations \ {old}
                /\ new.time_slot = fromisoformat(Get(req'.data, "time_slot"))]_vars

\* An update has just given a reservation another slot and another table, next to
\* a reservation of another customer.
C14_Witness ==
    /\ req.op = "reservation_put" /\ resp.status = 200
    /\ \E old \in loaded, new \in reservations, other \in reservations :
          /\ new.id = old.id /\ new.customer_id = old.customer_id
          /\ new.time_slot # old.time_slot /\ new.table_number # old.table_number
          /\ other.id # new.id /\ other.customer_id # new.customer_id

\* C15: a reservation update validates before it looks up: a request whose
\* time_slot is present but does not parse as a date-time fails with the
\* validation failure (status 400, the ValueError of fromisoformat), also when no
\* reservation has the id.
C15_ValidationBeforeLookup ==
    [][(/\ req'.op = "reservation_put"
        /\ Truthy(Get(req'.data, "time_slot"))
        /\ ~Parsable(Get(req'.data, "time_slot")))
       => /\ resp' = abort(400, StrValueError)
          /\ reservations' = reservations]_vars

\* C16: a reservation delete of an existing id succeeds whatever else is stored
\* and removes exactly that reservation; a get of the id afterwards answers 404,
\* and if the reservation's slot held NumTables reservations, a create at that slot
\* (in any spelling of it) for any existing customer then succeeds.
C16_DeleteFreesTable ==
    [][(req'.op = "reservation_delete" /\ Exists(reservations, req'.id))
       => LET old == row(query_get(reservations, req'.id))
          IN  /\ resp'.status = 200
              /\ reservations' = reservations \ {old}
              /\ customers' = customers
              /\ ReservationResource_get(reservations', req'.id)
                    = abort(404, StrNotFound)
              /\ Cardinality(ReservationsAt(reservations, old.time_slot)) = NumTables
                  => \A c \in customers',
                        s \in {x \in SlotStrings : fromisoformat(x) = old.time_slot} :
                        LET outs == ReservationCreate_post(customers', reservations',
                                        reservation_body(c.id, s), "r_next")
                        IN  /\ outs # {}
                            /\ \A o \in outs :
                                  /\ o.resp.status = 201
                                  /\ \E r \in o.reservations \ reservations' :
                                        r.table_number = old.table_number]_vars

\* A delete has just taken a reservation out of a slot that was full.
C16_Witness ==
    /\ req.op = "reservation_delete" /\ resp.status = 200
    /\ \E old \in loaded :
          /\ old \notin reservations
          /\ Cardinality(ReservationsAt(reservations, old.time_slot)) = NumTables - 1
    /\ customers # {}

\* C17: a customer update that gives newsletter_signup as false succeeds on a
\* customer whose flag is true and stores false (a present, non-null flag is
\* applied although false is falsy); an update that omits newsletter_signup or
\* gives null leaves the stored flag as it was.
C17_NewsletterFlag ==
    [][(req'.op = "customer_put" /\ Exists(customers, req'.id))
       => LET old == row(query_get(customers, req'.id))
              new == row(query_get(customers', req'.id))
              flag == req'.data.newsletter_signup
          IN  /\ Exists(customers', req'.id)
              /\ flag \in {Absent, None} => new.newsletter_signup = old.newsletter_signup
              /\ (flag \in {"True", "False"} /\ resp'.status = 200)
                 => new.newsletter_signup = flag
              /\ (flag = "False" /\ ~Truthy(Get(req'.data, "email")))
                 => resp'.status = 200]_vars

\* An update giving false has just cleared the flag of a customer that had it set.
C17_Witness ==
    /\ req.op = "customer_put" /\ resp.status = 200
    /\ req.data.newsletter_signup = "False"
    /\ \E old \in loaded, new \in customers :
          /\ new.id = old.id
          /\ old.newsletter_signup = "True" /\ new.newsletter_signup = "False"

\* C18: a reservation update whose new time_slot is the slot the reservation
\* holds succeeds whenever fewer than NumTables reservations hold that slot, and
\* every successful one leaves the reservation in the slot with a table_number
\* other than the one it held: its own table is not among the candidates.
C18_SameSlotNewTable ==
    [][(/\ req'.op = "reservation_put"
        /\ Exists(reservations, req'.id)
        /\ Parsable(Get(req'.data, "time_slot"))
        /\ fromisoformat(Get(req'.data, "time_slot"))
             = row(query_get(reservations, req'.id)).time_slot)
       => LET old == row(query_get(reservations, req'.id))
          IN  /\ Cardinality(ReservationsAt(reservations, old.time_slot)) < NumTables
                 => resp'.status = 200
              /\ resp'.status = 200
                 => \E new \in reservations' :
                       /\ new.id = old.id
                       /\ new.time_slot = old.time_slot
                       /\ new.table_number # old.table_number
                       /\ new.table_number \in available_tables(reservations,
                                                                old.time_slot)]_vars

\* An update to the reservation's own slot has just succeeded and the reservation
\* sits at another table of that slot.
C18_Witness ==
    /\ req.op = "reservation_put" /\ resp.status = 200
    /\ \E old \in loaded, new \in reservations :
          /\ new.id = old.id
          /\ fromisoformat(req.data.time_slot) = old.time_slot
          /\ new.time_slot = old.time_slot
          /\ new.table_number # old.table_number

\* C19: when a customer delete (count the customer's reservations, then remove
\* the customer) interleaves with reservation creates (look the customer up, then
\* insert), in a store that checks the customer of a reservation when the row is
\* written, no reachable state holds a reservation whose customer_id is the id of
\* a deleted customer: the insert for a customer deleted since the lookup fails,
\* and so does the removal of a customer that got a reservation since the count.
C19_NoOrphanReservation ==
    /\ [](\A r \in reservations : Exists(customers, r.customer_id))
    /\ [][/\ (req'.op = "reservation_post"
               /\ ~Exists(customers, Get(req'.data, "customer_id")))
              => (Failed(resp') /\ reservations' = reservations)
          /\ (req'.op = "customer_delete"
               /\ \E r \in reservations : r.customer_id = req'.id)
              => (Failed(resp') /\ customers' = customers)]_vars

\* The removal of a customer has just been refused at the commit: the count had
\* found no reservation, and a create for the customer committed in between.
\* The other worker's create for the same customer is still to commit.
C19_Witness ==
    /\ req.op = "customer_delete" /\ resp = abort(400, StrIntegrityError)
    /\ Exists(customers, req.id)
    /\ \E r \in reservations : r.customer_id = req.id
    /\ \E w \in Workers :
          /\ Pending(w) /\ inflight[w].scan.op = "post"
          /\ inflight[w].scan.customer_id = req.id

====
